---- MODULE Spec2Model ----
(***************************************************************************)
(* Model of static/js/script.js: the modal controller (openModal and its   *)
(* three close handlers), the theme controller (resolution at load, the    *)
(* toggle's click handler, localStorage) and the action-card click         *)
(* delegate.  The page is a small DOM tree; a user event is dispatched to   *)
(* the handlers registered along the bubble path of its target, one        *)
(* handler per step, each running to completion.                           *)
(***************************************************************************)
EXTENDS Naturals, Sequences, FiniteSets, TLC

(* Depth of the deepest element nested inside an action card. *)
MaxDepth == 3

(* JavaScript null (getItem of a missing key, getAttribute of a missing   *)
(* attribute); distinct from every string the page stores.                *)
null == "<null>"

VARIABLES
    pc,                 \* "loading": the script has not run yet; "ready": it has
    themeTogglePresent, \* the page holds an element with id themeToggle
    prefersDark,        \* matchMedia('(prefers-color-scheme: dark)').matches
    localStorage,       \* [theme |-> the value stored under 'theme', or null]
    cardData,           \* dataset of each action card
    modal,              \* innerText of the five modal fields and style.display
    dataTheme,          \* document.body's data-theme attribute, or null
    iconClass,          \* className of the toggle's <i>
    savedTheme,         \* const savedTheme (line 32), null until assigned
    currentTheme,       \* const currentTheme (line 34), null until assigned
    listeners,          \* the handlers the script has registered
    event,              \* the event being dispatched (or the last one)
    pending,            \* handlers of that event still to run, in bubble order
    openCalls,          \* observed: arguments of each openModal call of that event
    lastOpen,           \* observed: <<arguments>> of the latest openModal call
    themeBefore         \* observed: data-theme before each of the last two toggles

vars == <<pc, themeTogglePresent, prefersDark, localStorage, cardData, modal,
          dataTheme, iconClass, savedTheme, currentTheme, listeners, event,
          pending, openCalls, lastOpen, themeBefore>>

(* What the page's environment fixes, and what the script's top level sets. *)
page == <<themeTogglePresent, prefersDark, cardData>>
script == <<pc, savedTheme, currentTheme, listeners>>

----------------------------------------------------------------------------
(* The page.  An element is [id, depth]: depth 0 is the element with that  *)
(* id, depth d > 0 its descendant d levels below it.                       *)

El(id) == [id |-> id, depth |-> 0]
Under(id, d) == [id |-> id, depth |-> d]

Window == El("window")
Document == El("document")
Html == El("html")
Body == El("body")
Main == El("main")
Modal == El("modal")
ModalContent == El("modal-content")
Close == El("close")
ModalDetails == El("modal-details")
ThemeToggle == El("themeToggle")
ToggleIcon == Under("themeToggle", 1)
NoElement == El("<none>")

(* Elements carrying the class action-card-modern; cardB sits inside cardA. *)
Cards == {"cardA", "cardB"}

TopParent(id) ==
    CASE id = "document" -> Window
      [] id = "html" -> Document
      [] id = "body" -> Html
      [] id = "main" -> Body
      [] id = "modal" -> Body
      [] id = "modal-content" -> Modal
      [] id = "close" -> ModalContent
      [] id = "modal-details" -> ModalContent
      [] id = "themeToggle" -> Body
      [] id = "cardA" -> Main
      [] id = "cardB" -> Under("cardA", 1)
      [] OTHER -> NoElement

Parent(e) == IF e.depth > 0 THEN Under(e.id, e.depth - 1) ELSE TopParent(e.id)

CardElements == {Under(c, d) : c \in Cards, d \in 0..MaxDepth}

(* The elements a click can target. *)
Elements ==
    {Html, Body, Main, Modal, ModalContent, Close, ModalDetails}
        \cup CardElements
        \cup (IF themeTogglePresent THEN {ThemeToggle, ToggleIcon} ELSE {})

IsActionCard(e) == e.depth = 0 /\ e.id \in Cards

Summaries == {"Did X", ""}
Users == {"Alice", "Bob"}
Scores == {"5"}
Times == {"2024-01-01"}
Datasets == [summary : Summaries, user : Users, score : Scores, time : Times]

Themes == {"light", "dark"}
Keys == {"Escape", "Enter", "a"}

InitialModal ==
    [title |-> "", details |-> "", user |-> "", score |-> "", time |-> "",
     display |-> "none"]
InitialIconClass == ""
NoEvent == [type |-> "none", target |-> NoElement, key |-> "", shown |-> FALSE]


(* Values localStorage can hold under 'theme' when the page loads: the ones *)
(* the script itself writes, and (AnyStoredValues) ones written by others. *)
StoredValues == {null} \cup Themes
AnyStoredValues == StoredValues \cup {"", "blue"}

----------------------------------------------------------------------------
(* Pure parts of the script. *)

(* openModal with its first two parameters taken in the other order. *)
OpenModal_SwappedArgs(m, summary, name, score, time) ==
    [m EXCEPT !.title = "Action by " \o summary,
              !.details = name,
              !.user = summary,
              !.score = ("+" \o score) \o " pts",
              !.time = "Time: " \o time,
              !.display = "block"]

(* openModal, lines 1-8: five innerText assignments, then display. *)
OpenModal(m, summary, name, score, time) ==
    [m EXCEPT !.title = "Action by " \o name,
              !.details = summary,
              !.user = name,
              !.score = ("+" \o score) \o " pts",
              !.time = "Time: " \o time,
              !.display = "block"]

(* JavaScript truthiness of a string-or-null (the left operand of ||). *)
Truthy(v) == v # null /\ v # ""

(* Line 34 without the saved preference. *)
ResolveTheme_IgnoresSaved(saved, systemPrefersDark) ==
    IF systemPrefersDark THEN "dark" ELSE "light"

(* Line 34 resolving to dark as soon as either source says dark. *)
ResolveTheme_EitherDark(saved, systemPrefersDark) ==
    IF saved = "dark" \/ systemPrefersDark THEN "dark" ELSE "light"

(* Line 34 without the fallback: the value getItem returned, null included. *)
ResolveTheme_NoFallback(saved, systemPrefersDark) == saved

(* Line 34: savedTheme || (systemPrefersDark ? 'dark' : 'light'). *)
ResolveTheme(saved, systemPrefersDark) ==
    IF Truthy(saved) THEN saved
    ELSE IF systemPrefersDark THEN "dark" ELSE "light"

(* Lines 40 and 49: theme === 'dark' ? 'fa-solid fa-sun' : 'fa-solid fa-moon'. *)
IconFor(theme) == IF theme = "dark" THEN "fa-solid fa-sun" ELSE "fa-solid fa-moon"

(* Line 44: currentTheme === 'dark' ? 'light' : 'dark'. *)
NewTheme(current) == IF current = "dark" THEN "light" ELSE "dark"

(* closest() replaced by a walk that keeps the outermost matching ancestor. *)
RECURSIVE Closest_Outermost(_)
Closest_Outermost(e) ==
    IF e = NoElement \/ e = Document \/ e = Window THEN NoElement
    ELSE LET above == Closest_Outermost(Parent(e))
         IN IF above # NoElement THEN above
            ELSE IF IsActionCard(e) THEN e ELSE NoElement

(* closest() replaced by document.querySelector('.action-card-modern'):    *)
(* the first card of the page, whatever was clicked.                       *)
Closest_QuerySelector(e) == El("cardA")

(* Element.closest('.action-card-modern'), line 59: the element itself or  *)
(* its nearest ancestor element carrying the class; NoElement when the     *)
(* walk leaves the element tree.                                           *)
RECURSIVE Closest(_)
Closest(e) ==
    IF e = NoElement \/ e = Document \/ e = Window THEN NoElement
    ELSE IF IsActionCard(e) THEN e
    ELSE Closest(Parent(e))

(* Click listeners registered on one node, in registration order. *)
ClickListenersAt(node) ==
    (IF node = Close /\ "closeOnclick" \in listeners
        THEN <<"closeOnclick">> ELSE <<>>)
    \o (IF node = ThemeToggle /\ "themeToggleClick" \in listeners
        THEN <<"themeToggleClick">> ELSE <<>>)
    \o (IF node = Body /\ "bodyClick" \in listeners
        THEN <<"bodyClick">> ELSE <<>>)
    \o (IF node = Window /\ "windowOnclick" \in listeners
        THEN <<"windowOnclick">> ELSE <<>>)

(* Handlers a click on target runs: the bubble path target .. window. *)
RECURSIVE ClickHandlers(_)
ClickHandlers(node) ==
    ClickListenersAt(node)
        \o (IF node = Window THEN <<>> ELSE ClickHandlers(Parent(node)))

(* Handlers a keydown runs: the listener on document. *)
KeydownHandlers ==
    IF "documentKeydown" \in listeners THEN <<"documentKeydown">> ELSE <<>>

----------------------------------------------------------------------------
(* The page before the script runs. *)

FreshPage ==
    /\ pc = "loading"
    /\ modal = InitialModal
    /\ dataTheme = null
    /\ iconClass = InitialIconClass
    /\ savedTheme = null
    /\ currentTheme = null
    /\ listeners = {}
    /\ event = NoEvent
    /\ pending = <<>>
    /\ openCalls = <<>>
    /\ lastOpen = <<>>
    /\ themeBefore = <<>>

Init ==
    /\ themeTogglePresent \in BOOLEAN
    /\ prefersDark \in BOOLEAN
    /\ localStorage \in [theme : StoredValues]
    /\ cardData \in [Cards -> Datasets]
    /\ FreshPage

InitAnyStore ==
    /\ themeTogglePresent \in BOOLEAN
    /\ prefersDark \in BOOLEAN
    /\ localStorage \in [theme : AnyStoredValues]
    /\ cardData \in [Cards -> Datasets]
    /\ FreshPage

(* The script's top level without the if (themeToggle) guard of line 30.   *)
Load_Unguarded ==
    /\ pc = "loading"
    /\ pc' = "ready"
    /\ savedTheme' = localStorage.theme
    /\ currentTheme' = ResolveTheme(localStorage.theme, prefersDark)
    /\ dataTheme' = currentTheme'
    /\ iconClass' = IF themeTogglePresent THEN IconFor(currentTheme') ELSE iconClass
    /\ listeners' = {"closeOnclick", "windowOnclick", "documentKeydown", "bodyClick"}
                        \cup (IF themeTogglePresent THEN {"themeToggleClick"} ELSE {})
    /\ UNCHANGED <<page, localStorage, modal, event, pending, openCalls,
                   lastOpen, themeBefore>>

(* The script's top level also saving the theme it resolved. *)
Load_SavesResolved ==
    /\ pc = "loading"
    /\ pc' = "ready"
    /\ IF themeTogglePresent
       THEN /\ savedTheme' = localStorage.theme
            /\ currentTheme' = ResolveTheme(localStorage.theme, prefersDark)
            /\ dataTheme' = currentTheme'
            /\ iconClass' = IconFor(currentTheme')
            /\ localStorage' = [localStorage EXCEPT !.theme = currentTheme']
            /\ listeners' = {"closeOnclick", "windowOnclick", "documentKeydown",
                             "themeToggleClick", "bodyClick"}
       ELSE /\ listeners' = {"closeOnclick", "windowOnclick", "documentKeydown",
                             "bodyClick"}
            /\ UNCHANGED <<savedTheme, currentTheme, dataTheme, iconClass,
                           localStorage>>
    /\ UNCHANGED <<page, modal, event, pending, openCalls, lastOpen, themeBefore>>

(* The script's top level, lines 10-70, run once per page load. *)
Load ==
    /\ pc = "loading"
    /\ pc' = "ready"
    /\ IF themeTogglePresent
       THEN /\ savedTheme' = localStorage.theme
            /\ currentTheme' = ResolveTheme(localStorage.theme, prefersDark)
            /\ dataTheme' = currentTheme'
            /\ iconClass' = IconFor(currentTheme')
            /\ listeners' = {"closeOnclick", "windowOnclick", "documentKeydown",
                             "themeToggleClick", "bodyClick"}
       ELSE /\ listeners' = {"closeOnclick", "windowOnclick", "documentKeydown",
                             "bodyClick"}
            /\ UNCHANGED <<savedTheme, currentTheme, dataTheme, iconClass>>
    /\ UNCHANGED <<page, localStorage, modal, event, pending, openCalls,
                   lastOpen, themeBefore>>

(* The user reloads the page: the DOM and the script's state start over,   *)
(* localStorage survives, the system colour scheme may have changed.       *)
Reload ==
    /\ pc = "ready"
    /\ pending = <<>>
    /\ prefersDark' \in BOOLEAN
    /\ pc' = "loading"
    /\ modal' = InitialModal
    /\ dataTheme' = null
    /\ iconClass' = InitialIconClass
    /\ savedTheme' = null
    /\ currentTheme' = null
    /\ listeners' = {}
    /\ event' = NoEvent
    /\ pending' = <<>>
    /\ openCalls' = <<>>
    /\ lastOpen' = <<>>
    /\ themeBefore' = <<>>
    /\ UNCHANGED <<themeTogglePresent, cardData, localStorage>>

(* The user clicks an element of the page. *)
Click(target) ==
    /\ pc = "ready"
    /\ pending = <<>>
    /\ event' = [type |-> "click", target |-> target, key |-> "",
                 shown |-> (modal.display = "block")]
    /\ pending' = ClickHandlers(target)
    /\ openCalls' = <<>>
    /\ UNCHANGED <<page, script, localStorage, modal, dataTheme, iconClass,
                   lastOpen, themeBefore>>

(* The user presses a key. *)
Keydown(key) ==
    /\ pc = "ready"
    /\ pending = <<>>
    /\ event' = [type |-> "keydown", target |-> Body, key |-> key,
                 shown |-> (modal.display = "block")]
    /\ pending' = KeydownHandlers
    /\ openCalls' = <<>>
    /\ UNCHANGED <<page, script, localStorage, modal, dataTheme, iconClass,
                   lastOpen, themeBefore>>

Runs(handler) == pending # <<>> /\ Head(pending) = handler

(* The close control's onclick also resetting the modal's content. *)
CloseOnclick_ClearsContent ==
    /\ Runs("closeOnclick")
    /\ modal' = InitialModal
    /\ pending' = Tail(pending)
    /\ UNCHANGED <<page, script, localStorage, dataTheme, iconClass, event,
                   openCalls, lastOpen, themeBefore>>

(* Lines 10-12: document.querySelector('.close').onclick. *)
CloseOnclick ==
    /\ Runs("closeOnclick")
    /\ modal' = [modal EXCEPT !.display = "none"]
    /\ pending' = Tail(pending)
    /\ UNCHANGED <<page, script, localStorage, dataTheme, iconClass, event,
                   openCalls, lastOpen, themeBefore>>

(* Lines 14-19: window.onclick. *)
WindowOnclick ==
    /\ Runs("windowOnclick")
    /\ modal' = IF event.target = Modal
                THEN [modal EXCEPT !.display = "none"]
                ELSE modal
    /\ pending' = Tail(pending)
    /\ UNCHANGED <<page, script, localStorage, dataTheme, iconClass, event,
                   openCalls, lastOpen, themeBefore>>

(* The keydown listener without its test of event.key. *)
DocumentKeydown_AnyKey ==
    /\ Runs("documentKeydown")
    /\ modal' = [modal EXCEPT !.display = "none"]
    /\ pending' = Tail(pending)
    /\ UNCHANGED <<page, script, localStorage, dataTheme, iconClass, event,
                   openCalls, lastOpen, themeBefore>>

(* The keydown listener testing the legacy key name 'Esc'. *)
DocumentKeydown_EscName ==
    /\ Runs("documentKeydown")
    /\ modal' = IF event.key = "Esc"
                THEN [modal EXCEPT !.display = "none"]
                ELSE modal
    /\ pending' = Tail(pending)
    /\ UNCHANGED <<page, script, localStorage, dataTheme, iconClass, event,
                   openCalls, lastOpen, themeBefore>>

(* Lines 22-26: the keydown listener on document. *)
DocumentKeydown ==
    /\ Runs("documentKeydown")
    /\ modal' = IF event.key = "Escape"
                THEN [modal EXCEPT !.display = "none"]
                ELSE modal
    /\ pending' = Tail(pending)
    /\ UNCHANGED <<page, script, localStorage, dataTheme, iconClass, event,
                   openCalls, lastOpen, themeBefore>>

(* The toggle's listener choosing the icon from currentTheme, not newTheme. *)
ThemeToggleClick_IconFromOld ==
    /\ Runs("themeToggleClick")
    /\ dataTheme' = NewTheme(dataTheme)
    /\ iconClass' = IconFor(dataTheme)
    /\ localStorage' = [localStorage EXCEPT !.theme = dataTheme']
    /\ themeBefore' = IF Len(themeBefore) = 2
                      THEN <<themeBefore[2], dataTheme>>
                      ELSE Append(themeBefore, dataTheme)
    /\ pending' = Tail(pending)
    /\ UNCHANGED <<page, script, modal, event, openCalls, lastOpen>>

(* The toggle's listener also hiding the modal. *)
ThemeToggleClick_HidesModal ==
    /\ Runs("themeToggleClick")
    /\ dataTheme' = NewTheme(dataTheme)
    /\ iconClass' = IconFor(dataTheme')
    /\ localStorage' = [localStorage EXCEPT !.theme = dataTheme']
    /\ themeBefore' = IF Len(themeBefore) = 2
                      THEN <<themeBefore[2], dataTheme>>
                      ELSE Append(themeBefore, dataTheme)
    /\ modal' = [modal EXCEPT !.display = "none"]
    /\ pending' = Tail(pending)
    /\ UNCHANGED <<page, script, event, openCalls, lastOpen>>

(* The toggle's listener saving currentTheme instead of newTheme. *)
ThemeToggleClick_SavesOld ==
    /\ Runs("themeToggleClick")
    /\ dataTheme' = NewTheme(dataTheme)
    /\ iconClass' = IconFor(dataTheme')
    /\ localStorage' = [localStorage EXCEPT !.theme = dataTheme]
    /\ themeBefore' = IF Len(themeBefore) = 2
                      THEN <<themeBefore[2], dataTheme>>
                      ELSE Append(themeBefore, dataTheme)
    /\ pending' = Tail(pending)
    /\ UNCHANGED <<page, script, modal, event, openCalls, lastOpen>>

(* Lines 42-53: the click listener on themeToggle. *)
ThemeToggleClick ==
    /\ Runs("themeToggleClick")
    /\ dataTheme' = NewTheme(dataTheme)
    /\ iconClass' = IconFor(dataTheme')
    /\ localStorage' = [localStorage EXCEPT !.theme = dataTheme']
    /\ themeBefore' = IF Len(themeBefore) = 2
                      THEN <<themeBefore[2], dataTheme>>
                      ELSE Append(themeBefore, dataTheme)
    /\ pending' = Tail(pending)
    /\ UNCHANGED <<page, script, modal, event, openCalls, lastOpen>>

(* Lines 57-70: the click listener on document.body. *)
BodyClick ==
    /\ Runs("bodyClick")
    /\ LET cardElement == Closest(event.target)
       IN IF cardElement # NoElement
          THEN LET d == cardData[cardElement.id]
               IN /\ modal' = OpenModal(modal, d.summary, d.user, d.score, d.time)
                  /\ openCalls' = Append(openCalls, d)
                  /\ lastOpen' = <<d>>
          ELSE UNCHANGED <<modal, openCalls, lastOpen>>
    /\ pending' = Tail(pending)
    /\ UNCHANGED <<page, script, localStorage, dataTheme, iconClass, event,
                   themeBefore>>

Next ==
    \/ Load
    \/ Reload
    \/ \E target \in Elements : Click(target)
    \/ \E key \in Keys : Keydown(key)
    \/ CloseOnclick
    \/ WindowOnclick
    \/ DocumentKeydown
    \/ ThemeToggleClick
    \/ BodyClick

Spec == Init /\ [][Next]_vars

SpecAnyStore == InitAnyStore /\ [][Next]_vars

----------------------------------------------------------------------------
(* Vocabulary of the properties. *)

(* What the modal shows for one open request. *)
ShownModal(d) ==
    [title |-> "Action by " \o d.user,
     details |-> d.summary,
     user |-> d.user,
     score |-> "+" \o (d.score \o " pts"),
     time |-> "Time: " \o d.time,
     display |-> "block"]

Content(m) == <<m.title, m.details, m.user, m.score, m.time>>
Visible == modal.display = "block"
Dispatched == pending = <<>> /\ event.type # "none"

RECURSIVE AncestorsOrSelf(_)
AncestorsOrSelf(e) ==
    IF e = Window \/ e = NoElement THEN {e} ELSE {e} \cup AncestorsOrSelf(Parent(e))

(* The action cards enclosing e, and the innermost of them. *)
EnclosingCards(e) == {c \in AncestorsOrSelf(e) : c.depth = 0 /\ c.id \in Cards}
InnermostCards(e) ==
    {c \in EnclosingCards(e) : \A c2 \in EnclosingCards(e) : c2 \in AncestorsOrSelf(c)}

IsCloseTrigger(ev) ==
    \/ ev.type = "click" /\ ev.target = Close
    \/ ev.type = "click" /\ ev.target = Modal
    \/ ev.type = "keydown" /\ ev.key = "Escape"

----------------------------------------------------------------------------
(* C1: a step that calls openModal(summary, user, score, time), from any   *)
(* prior modal state, ends with title "Action by " + user, details =       *)
(* summary, user = user, score "+" + score + " pts", time "Time: " + time  *)
(* and the modal visible.                                                  *)
C1_OpenModalSetsFields ==
    [][openCalls' # openCalls /\ openCalls' # <<>>
          => modal' = ShownModal(openCalls'[Len(openCalls')])]_vars

(* Right after an openModal call made while the modal was already shown.   *)
C1_Witness ==
    /\ openCalls # <<>>
    /\ pending = <<"windowOnclick">>
    /\ event.shown
    /\ modal = ShownModal(openCalls[1])
    /\ modal.details = "" /\ modal.user = "Bob"

(* C2: once every handler of a close trigger (click on the close control,  *)
(* click on the modal backdrop itself, keydown Escape) fired on a shown    *)
(* modal has run, the modal is hidden.                                     *)
C2_CloseTriggersHide ==
    (Dispatched /\ IsCloseTrigger(event) /\ event.shown) => modal.display = "none"

(* A click on the close control of a shown, populated modal has run all    *)
(* its handlers (close onclick, body delegate, window.onclick).            *)
C2_Witness ==
    /\ Dispatched
    /\ event.type = "click" /\ event.target = Close
    /\ event.shown
    /\ modal.title # ""
    /\ modal.display = "none"

(* C3: once the handlers of a click on a card or on an element nested in   *)
(* one have run, openModal was called exactly once, with the dataset of    *)
(* the innermost enclosing card, and the modal shows that card.            *)
C3_CardClickOpensOnce ==
    (Dispatched /\ event.type = "click" /\ EnclosingCards(event.target) # {})
        => \E c \in InnermostCards(event.target) :
              /\ openCalls = <<cardData[c.id]>>
              /\ modal = ShownModal(cardData[c.id])

(* A click MaxDepth levels inside the inner of two nested cards whose      *)
(* datasets differ.                                                        *)
C3_Witness ==
    /\ Dispatched
    /\ event.type = "click" /\ event.target = Under("cardB", MaxDepth)
    /\ cardData["cardA"] # cardData["cardB"]
    /\ openCalls = <<cardData["cardB"]>>
    /\ Visible

(* C4: no step of a click whose target has no enclosing action card calls  *)
(* openModal, changes a modal content field or shows a hidden modal.       *)
C4_NonCardClickNeverOpens ==
    [][(event'.type = "click" /\ EnclosingCards(event'.target) = {})
          => /\ openCalls' = <<>>
             /\ Content(modal') = Content(modal)
             /\ (modal'.display = "block" => modal.display = "block")]_vars

(* A click on the page outside every card has run all its handlers and the *)
(* modal is still hidden.                                                  *)
C4_Witness ==
    /\ Dispatched
    /\ event.type = "click" /\ event.target = Main
    /\ ~event.shown
    /\ ~Visible

(* C5: with the toggle present, the second of two consecutive clicks on   *)
(* the theme toggle restores the data-theme the page had before the first, *)
(* and after each click localStorage's 'theme' equals data-theme.          *)
C5_ToggleTwiceRestores ==
    (pc = "ready" /\ themeTogglePresent)
        => /\ Len(themeBefore) = 2 => dataTheme = themeBefore[1]
           /\ themeBefore # <<>> => localStorage.theme = dataTheme

(* Two clicks on the toggle (the second on its icon) have run, from a page *)
(* that loaded dark with nothing saved.                                    *)
C5_Witness ==
    /\ Dispatched
    /\ event.type = "click" /\ event.target = ToggleIcon
    /\ savedTheme = null
    /\ themeBefore = <<"dark", "light">>
    /\ dataTheme = "dark"
    /\ localStorage.theme = "dark"

(* C6: at page load with the toggle present the resolved theme is the      *)
(* saved value when one is saved, whatever the system signal; with none    *)
(* saved it is dark for a true system signal and light for a false one.    *)
C6_LoadResolution ==
    (pc = "ready" /\ themeTogglePresent)
        => /\ currentTheme = IF savedTheme # null THEN savedTheme
                             ELSE IF prefersDark THEN "dark" ELSE "light"
           /\ event = NoEvent
                 => savedTheme = localStorage.theme /\ dataTheme = currentTheme

(* A page just loaded with 'light' saved on a system that prefers dark.    *)
C6_Witness ==
    /\ pc = "ready" /\ themeTogglePresent /\ event = NoEvent
    /\ localStorage.theme = "light" /\ prefersDark
    /\ dataTheme = "light"

(* C7 as stated: after page load, for any stored content and any system    *)
(* signal, data-theme is light or dark and so is a stored 'theme'.         *)
C7_AnyStoreTwoStates ==
    pc = "ready"
        => /\ dataTheme \in Themes
           /\ localStorage.theme # null => localStorage.theme \in Themes

(* C7 (amended): on a page with the toggle, loaded with 'theme' absent,    *)
(* 'light' or 'dark' in the store, data-theme is light or dark in every    *)
(* state after load, and so is the stored 'theme' when present.            *)
C7_TwoThemeStates ==
    (pc = "ready" /\ themeTogglePresent /\ savedTheme \in StoredValues)
        => /\ dataTheme \in Themes
           /\ localStorage.theme # null => localStorage.theme \in Themes

(* A page loaded light with nothing saved, toggled once to dark.           *)
C7_Witness ==
    /\ pc = "ready" /\ themeTogglePresent
    /\ savedTheme = null /\ currentTheme = "light"
    /\ themeBefore = <<"light">>
    /\ dataTheme = "dark" /\ localStorage.theme = "dark"

(* C8: in every state the five modal content fields are those of the most  *)
(* recent openModal call, or the initial ones if there was none; closing   *)
(* does not alter them.                                                    *)
C8_ContentIsLastOpen ==
    Content(modal) = IF lastOpen = <<>> THEN Content(InitialModal)
                     ELSE Content(ShownModal(lastOpen[1]))

(* The close control has hidden a modal that still holds the last open's   *)
(* content.                                                                *)
C8_Witness ==
    /\ Dispatched
    /\ event.type = "click" /\ event.target = Close /\ event.shown
    /\ lastOpen # <<>>
    /\ ~Visible
    /\ modal.details = lastOpen[1].summary /\ modal.user = "Alice"

(* C9: without the toggle control no toggle listener is registered, the    *)
(* script never sets data-theme or the icon, never reads or writes the     *)
(* stored 'theme', and the close handlers and card delegate still work.    *)
C9_InertWithoutToggle ==
    [][~themeTogglePresent'
          => /\ "themeToggleClick" \notin listeners'
             /\ dataTheme' = null /\ iconClass' = InitialIconClass
             /\ savedTheme' = null /\ currentTheme' = null
             /\ localStorage' = localStorage
             /\ pc' = "ready"
                   => {"closeOnclick", "windowOnclick", "documentKeydown",
                       "bodyClick"} \subseteq listeners'
             /\ (pending' = <<>> /\ IsCloseTrigger(event') /\ event'.shown)
                   => modal'.display = "none"
             /\ (pending' = <<>> /\ event'.type = "click"
                     /\ EnclosingCards(event'.target) # {})
                   => modal'.display = "block" /\ Len(openCalls') = 1]_vars

(* On a page without the toggle and with 'dark' stored, a card click has   *)
(* opened the modal and Escape has closed it; data-theme is still unset.   *)
C9_Witness ==
    /\ ~themeTogglePresent
    /\ Dispatched
    /\ event.type = "keydown" /\ event.key = "Escape" /\ event.shown
    /\ ~Visible /\ lastOpen # <<>>
    /\ dataTheme = null
    /\ localStorage.theme = "dark"

(* C10 as stated: the theme resolves to dark if the saved preference or    *)
(* the system signal indicates dark, and to light otherwise.               *)
C10_DarkIfEitherSource ==
    (pc = "ready" /\ themeTogglePresent)
        => currentTheme = IF savedTheme = "dark" \/ prefersDark
                          THEN "dark" ELSE "light"

(* C10 (amended): the theme resolves to dark if the saved preference is    *)
(* dark, or if none is saved and the system signal is true, and to light   *)
(* otherwise: a saved light wins over a dark system signal.                *)
C10_DarkIfSavedDarkOrUnsavedSystemDark ==
    (pc = "ready" /\ themeTogglePresent)
        => currentTheme = IF savedTheme = "dark" \/ (savedTheme = null /\ prefersDark)
                          THEN "dark" ELSE "light"

(* The combination the two statements differ on: light saved, system dark. *)
C10_Witness ==
    /\ pc = "ready" /\ themeTogglePresent
    /\ savedTheme = "light" /\ prefersDark
    /\ currentTheme = "light"

(* C11: the stored 'theme' changes only in the toggle listener's step of  *)
(* a click on the theme toggle: page load never writes it, so a theme      *)
(* resolved from the system signal stays unsaved until the first toggle,   *)
(* and no card click, close click, backdrop click or keydown changes it.   *)
C11_StoreWrittenOnlyByToggle ==
    [][/\ localStorage' # localStorage
             => /\ event.type = "click"
                /\ event.target \in {ThemeToggle, ToggleIcon}
                /\ pending # <<>> /\ Head(pending) = "themeToggleClick"
       /\ (pc' = "ready" /\ themeTogglePresent' /\ savedTheme' = null
               /\ themeBefore' = <<>>)
             => localStorage'.theme = null]_vars

(* A page that resolved dark from the system signal has since opened the   *)
(* modal from a card and closed it with Escape; nothing is stored yet.     *)
C11_Witness ==
    /\ themeTogglePresent /\ Dispatched
    /\ event.type = "keydown" /\ event.key = "Escape" /\ event.shown
    /\ lastOpen # <<>>
    /\ savedTheme = null /\ dataTheme = "dark"
    /\ localStorage.theme = null

(* C12: with the toggle present, after load and after every toggle the     *)
(* icon class is 'fa-solid fa-sun' exactly when data-theme is dark and     *)
(* 'fa-solid fa-moon' exactly when it is light.                            *)
C12_IconMatchesTheme ==
    (pc = "ready" /\ themeTogglePresent)
        => /\ iconClass = "fa-solid fa-sun" <=> dataTheme = "dark"
           /\ iconClass = "fa-solid fa-moon" <=> dataTheme = "light"

(* A page loaded dark and toggled once shows the moon on a light theme.    *)
C12_Witness ==
    /\ pc = "ready" /\ themeTogglePresent
    /\ currentTheme = "dark" /\ themeBefore = <<"dark">>
    /\ dataTheme = "light" /\ iconClass = "fa-solid fa-moon"

(* C13: on a loaded page a shown modal becomes hidden only in a step of a  *)
(* close trigger (close control, backdrop itself, Escape): no other click  *)
(* and no other key hides it; and a close trigger fired on a hidden modal  *)
(* leaves it hidden.                                                       *)
C13_HiddenOnlyByCloseTriggers ==
    [][/\ (pc' = "ready" /\ modal.display = "block" /\ modal'.display # "block")
             => IsCloseTrigger(event')
       /\ (IsCloseTrigger(event') /\ ~event'.shown)
             => modal'.display # "block"]_vars

(* A click inside the modal body, on a shown modal, has run all its        *)
(* handlers and the modal is still shown.                                  *)
C13_Witness ==
    /\ Dispatched
    /\ event.type = "click" /\ event.target = ModalDetails
    /\ event.shown
    /\ Visible

(* C14: no step of a click on the theme toggle (which is in no action      *)
(* card) changes the modal's display or content, and no step of a card     *)
(* click or of a close trigger changes data-theme or the icon class.       *)
C14_ModalAndThemeIndependent ==
    [][/\ (event'.type = "click" /\ event'.target \in {ThemeToggle, ToggleIcon}
               /\ EnclosingCards(event'.target) = {})
             => modal' = modal
       /\ (IsCloseTrigger(event')
               \/ (event'.type = "click" /\ EnclosingCards(event'.target) # {}))
             => dataTheme' = dataTheme /\ iconClass' = iconClass]_vars

(* The toggle was clicked while the modal was shown: the theme flipped and *)
(* the modal is still shown with its content.                              *)
C14_Witness ==
    /\ Dispatched
    /\ event.type = "click" /\ event.target = ThemeToggle /\ event.shown
    /\ themeBefore # <<>> /\ dataTheme = NewTheme(themeBefore[Len(themeBefore)])
    /\ Visible /\ lastOpen # <<>> /\ modal = ShownModal(lastOpen[1])

====
